---- MODULE Spec2Model ----
(***************************************************************************)
(* ws-ssh-proxy: the session registry, the per-session state machine, the  *)
(* WebSocket attachment, the idle sweeper and the versioned notification   *)
(* bus of src/src/server.ts, as one state machine.                         *)
(*                                                                         *)
(* Node runs every handler to completion, so one action is one handler     *)
(* (HTTP request, ssh2 event, channel event, ws event, timer tick).  The   *)
(* ssh2 Client, its shell channel and the ws sockets are the environment:  *)
(* their events fire in any order their own state allows.                  *)
(***************************************************************************)
EXTENDS Integers, Sequences, FiniteSets, TLC

\* ------------------------------------------------------------------ bounds
MaxSessions == 2      \* session ids ever created (randomUUID draws)
MaxPeers == 2         \* WebSocket objects ever upgraded
MaxVersion == 4       \* publications explored
MaxTime == 2          \* clock ticks explored

\* ------------------------------------------------------- program constants
\* process.env defaults, scaled to the explored clock and registry
MAX_CONNECTIONS == 1
DEFAULT_IDLE_TIMEOUT_MS == 1
DefaultCols == 120
DefaultRows == 30

Ids == 1..MaxSessions
Peers == 1..MaxPeers
Terminal == {"closed", "error"}
\* POST /connections body.idleTimeoutMs: absent (or 0, falsy): the default applies
IdleParams == {0}
\* what tryParseControlMessage and the dispatch make of an inbound frame:
\* raw is a frame that is no control message (binary, plain text, JSON without
\* a known type); resizeNaN is a resize whose cols or rows is not finite
Frames == {"raw", "stdin", "resize", "resizeNaN", "ping", "detach"}
\* resize inputs, HTTP body or control frame
ColsIn == {200}
RowsIn == {50}

VARIABLES
  connections,         \* keys of the registry Map
  conn,                \* id -> ManagedConnection fields (the object outlives the Map entry)
  pc,                  \* id -> position of the createConnection call
  ssh,                 \* id -> ssh2 Client socket: idle, connecting, ready, closed
  ended,               \* id -> ssh.end() was called
  chan,                \* id -> shell channel: none, open, closing, errored, closed
  ws,                  \* peer -> WebSocket object
  connectionsVersion,  \* the global notification version
  now,                 \* Date.now()
  nextId,              \* the next randomUUID
  nextWs,              \* the next WebSocket object
  published,           \* the summaries published by the last handler, in order
  sent,                \* the peers the last handler sent a shell chunk to
  refused,             \* the session and close code of a socket the last handler refused
  wrote,               \* the session whose shell the last handler wrote to, 0 when none
  pong,                \* the peer the last handler answered with a pong, 0 when none
  reply,               \* the HTTP status sent by the last handler, 0 when none
  resizing,            \* ids of the resize requests whose body is being read
  termNotes,           \* id -> history: terminal notifications published about it
  adminNotes           \* id -> history: deleted and idle-timeout notifications about it

vars == <<connections, conn, pc, ssh, ended, chan, ws, connectionsVersion, now,
          nextId, nextWs, published, sent, refused, wrote, pong,
          reply, resizing, termNotes, adminNotes>>

\* ------------------------------------------------------------------ types
NoConn ==
  [state |-> "none", shell |-> FALSE, clients |-> {}, cols |-> 0, rows |-> 0,
   lastActivityAt |-> 0, idleTimeoutMs |-> 0]

NoRefusal == [conn |-> 0, code |-> 0]

NoWs ==
  [conn |-> 0, readyState |-> "NONE", readOnly |-> FALSE, listening |-> FALSE,
   errored |-> FALSE, code |-> 0]

\* The part of the state a handler reads and writes, as one value.
Cur ==
  [connections |-> connections, conn |-> conn, ssh |-> ssh, ended |-> ended,
   chan |-> chan, ws |-> ws, version |-> connectionsVersion, pub |-> <<>>,
   sent |-> {}, refused |-> NoRefusal, wrote |-> 0, pong |-> 0]

\* ---------------------------------------------------------------- helpers
touch(s, id, t) ==
  [s EXCEPT !.conn[id].lastActivityAt = t]

CountState(s, st) ==
  Cardinality({i \in s.connections : s.conn[i].state = st})

computeCounts(s) ==
  [total |-> Cardinality(s.connections),
   ready |-> CountState(s, "ready"),
   connecting |-> CountState(s, "connecting"),
   error |-> CountState(s, "error"),
   closed |-> Cardinality(s.connections) - CountState(s, "ready")
              - CountState(s, "connecting") - CountState(s, "error")]

\* mutant: the summary carries the version read before the increment
bumpAndNotify_stale(s, reason, id) ==
  [s EXCEPT !.version = @ + 1,
            !.pub = Append(@, [version |-> s.version, reason |-> reason,
                               id |-> id, counts |-> computeCounts(s)])]

bumpAndNotify(s, reason, id) ==
  [s EXCEPT !.version = @ + 1,
            !.pub = Append(@, [version |-> s.version + 1, reason |-> reason,
                               id |-> id, counts |-> computeCounts(s)])]

\* ws.close(code): only an OPEN socket starts its closing handshake
safeCloseWs(s, w, code) ==
  IF s.ws[w].readyState = "OPEN"
    THEN [s EXCEPT !.ws[w].readyState = "CLOSING", !.ws[w].code = code]
    ELSE s

\* for (const w of conn.clients) safeCloseWs(w, code); conn.clients.clear()
closeClients(s, id, code) ==
  [s EXCEPT !.ws = [w \in Peers |->
                      IF w \in s.conn[id].clients /\ s.ws[w].readyState = "OPEN"
                        THEN [s.ws[w] EXCEPT !.readyState = "CLOSING", !.code = code]
                        ELSE s.ws[w]],
            !.conn[id].clients = {}]

\* conn.shell?.close?.()
shellClose(s, id) ==
  IF s.conn[id].shell /\ s.chan[id] = "open"
    THEN [s EXCEPT !.chan[id] = "closing"]
    ELSE s

\* conn.ssh.end()
sshEnd(s, id) ==
  IF s.ssh[id] \in {"connecting", "ready"}
    THEN [s EXCEPT !.ended[id] = TRUE]
    ELSE s

\* mutant: the summary is published before the session leaves the registry
terminateConnection_notifyFirst(s, id, reason) ==
  LET s1 == [s EXCEPT !.conn[id].state = "closed"]
      s2 == closeClients(s1, id, 1001)
      s3 == shellClose(s2, id)
      s4 == sshEnd(s3, id)
      s5 == bumpAndNotify(s4, reason, id)
  IN  [s5 EXCEPT !.connections = @ \ {id}]

\* mutant: the session is terminated but stays in the registry
terminateConnection_kept(s, id, reason) ==
  LET s1 == [s EXCEPT !.conn[id].state = "closed"]
      s2 == closeClients(s1, id, 1001)
      s3 == shellClose(s2, id)
      s4 == sshEnd(s3, id)
  IN  bumpAndNotify(s4, reason, id)

terminateConnection(s, id, reason) ==
  LET s1 == [s EXCEPT !.conn[id].state = "closed"]
      s2 == closeClients(s1, id, 1001)
      s3 == shellClose(s2, id)
      s4 == sshEnd(s3, id)
      s5 == [s4 EXCEPT !.connections = @ \ {id}]
  IN  bumpAndNotify(s5, reason, id)

\* A published summary is a terminal one when its reason is deleted or
\* idle-timeout, or when it is a state summary of a session left Closed or Error.
TerminalNote(n, cn) ==
  \/ n.reason \in {"deleted", "idle-timeout"}
  \/ n.reason = "state" /\ cn[n.id].state \in Terminal

CountNotes(pub, id, cn) ==
  Cardinality({k \in 1..Len(pub) : pub[k].id = id /\ TerminalNote(pub[k], cn)})

CountAdminNotes(pub, id) ==
  Cardinality({k \in 1..Len(pub) : pub[k].id = id
                                   /\ pub[k].reason \in {"deleted", "idle-timeout"}})

\* The handler's result becomes the next state.
Commit(s) ==
  /\ s.version <= MaxVersion
  /\ connections' = s.connections
  /\ conn' = s.conn
  /\ ssh' = s.ssh
  /\ ended' = s.ended
  /\ chan' = s.chan
  /\ ws' = s.ws
  /\ connectionsVersion' = s.version
  /\ published' = s.pub
  /\ sent' = s.sent
  /\ refused' = s.refused
  /\ wrote' = s.wrote
  /\ pong' = s.pong
  /\ termNotes' = [i \in Ids |-> termNotes[i] + CountNotes(s.pub, i, s.conn)]
  /\ adminNotes' = [i \in Ids |-> adminNotes[i] + CountAdminNotes(s.pub, i)]

\* ------------------------------------------------------------------- Init
Init ==
  /\ connections = {}
  /\ conn = [i \in Ids |-> NoConn]
  /\ pc = [i \in Ids |-> "idle"]
  /\ ssh = [i \in Ids |-> "idle"]
  /\ ended = [i \in Ids |-> FALSE]
  /\ chan = [i \in Ids |-> "none"]
  /\ ws = [w \in Peers |-> NoWs]
  /\ connectionsVersion = 0
  /\ now = 0
  /\ nextId = 1
  /\ nextWs = 1
  /\ published = <<>>
  /\ sent = {}
  /\ refused = NoRefusal
  /\ wrote = 0
  /\ pong = 0
  /\ reply = 0
  /\ resizing = {}
  /\ termNotes = [i \in Ids |-> 0]
  /\ adminNotes = [i \in Ids |-> 0]

\* -------------------------------------------------------- createConnection
\* mutant: the capacity check compares with > instead of >=
CapacityExceeded_gt(s) == Cardinality(s.connections) > MAX_CONNECTIONS

CapacityExceeded(s) == Cardinality(s.connections) >= MAX_CONNECTIONS

\* POST /connections, up to the first await: the capacity check, the insert,
\* the created notification and ssh.connect().
Create(idle) ==
  /\ nextId <= MaxSessions
  /\ ~CapacityExceeded(Cur)
  /\ LET id == nextId
         c == [state |-> "connecting", shell |-> FALSE, clients |-> {},
               cols |-> DefaultCols, rows |-> DefaultRows, lastActivityAt |-> now,
               idleTimeoutMs |-> IF idle = 0 THEN DEFAULT_IDLE_TIMEOUT_MS ELSE idle]
         s1 == [Cur EXCEPT !.conn[id] = c, !.connections = @ \cup {id}]
         s2 == bumpAndNotify(s1, "created", id)
         s3 == [s2 EXCEPT !.ssh[id] = "connecting"]
     IN  /\ Commit(s3)
         /\ pc' = [pc EXCEPT ![id] = "await_ssh"]
         /\ nextId' = nextId + 1
  /\ reply' = 0
  /\ UNCHANGED <<now, nextWs, resizing>>

\* POST /connections at capacity: createConnection throws, the handler answers 500.
CreateRejected ==
  /\ CapacityExceeded(Cur)
  /\ Commit(Cur)
  /\ reply' = 500
  /\ UNCHANGED <<pc, now, nextId, nextWs, resizing>>

\* ---------------------------------------------------------- ssh2 events
\* ssh.shell(...) on a transport whose end() was called throws "Not connected"
\* inside the promise executor, which rejects the create.
shellRequestThrows(s, id) == s.ended[id]

\* 'ready': the first await resolves and the continuation calls ssh.shell().
SshReady(id) ==
  /\ pc[id] = "await_ssh"
  /\ ssh[id] = "connecting"
  /\ Commit([Cur EXCEPT !.ssh[id] = "ready"])
  /\ IF shellRequestThrows(Cur, id)
       THEN pc' = [pc EXCEPT ![id] = "rejected"] /\ reply' = 500
       ELSE pc' = [pc EXCEPT ![id] = "await_shell"] /\ reply' = 0
  /\ UNCHANGED <<now, nextId, nextWs, resizing>>

\* 'error' (auth, DNS, TCP, handshake, readyTimeout): ssh.on("error", reject).
\* Before ready it rejects the create (HTTP 500); afterwards reject is a no-op.
SshError(id) ==
  /\ ssh[id] \in {"connecting", "ready"}
  /\ Commit(Cur)
  /\ IF pc[id] = "await_ssh"
       THEN pc' = [pc EXCEPT ![id] = "rejected"] /\ reply' = 500
       ELSE pc' = pc /\ reply' = 0
  /\ UNCHANGED <<now, nextId, nextWs, resizing>>

onSshClose(s, id) ==
  LET s1 == [s EXCEPT !.conn[id].state = "closed"]
      s2 == closeClients(s1, id, 1011)
  IN  bumpAndNotify(s2, "state", id)

\* 'close' of the transport: ssh2 tears its channels down with the socket (an
\* open shell channel will emit its own close), then the handler of line 205
\* runs.
SshClose(id) ==
  /\ ssh[id] \in {"connecting", "ready"}
  /\ Commit(onSshClose([Cur EXCEPT !.ssh[id] = "closed",
                                   !.chan[id] = IF @ = "open" THEN "closing" ELSE @], id))
  /\ reply' = 0
  /\ UNCHANGED <<pc, now, nextId, nextWs, resizing>>

\* mutant: the callback marks the session ready without storing the stream
onShellOpen_stateOnly(s, id, t) ==
  bumpAndNotify(touch([s EXCEPT !.conn[id].state = "ready"], id, t), "state", id)

onShellOpen(s, id, t) ==
  LET s1 == [s EXCEPT !.conn[id].shell = TRUE, !.conn[id].state = "ready"]
      s2 == touch(s1, id, t)
  IN  bumpAndNotify(s2, "state", id)

\* ssh.shell callback with a stream: the create returns and answers 201.
ShellOpen(id) ==
  /\ pc[id] = "await_shell"
  /\ ssh[id] = "ready"
  /\ Commit(onShellOpen([Cur EXCEPT !.chan[id] = "open"], id, now))
  /\ pc' = [pc EXCEPT ![id] = "returned"]
  /\ reply' = 201
  /\ UNCHANGED <<now, nextId, nextWs, resizing>>

\* ssh.shell callback with err: reject(err), the create answers 500.
ShellOpenFail(id) ==
  /\ pc[id] = "await_shell"
  /\ Commit(Cur)
  /\ pc' = [pc EXCEPT ![id] = "rejected"]
  /\ reply' = 500
  /\ UNCHANGED <<now, nextId, nextWs, resizing>>

\* mutant: a send that throws is not caught and ends the loop (clients are
\* iterated in the order they were added)
fanOut_uncaught(s, id, throwing) ==
  [s EXCEPT !.sent = {w \in s.conn[id].clients :
                        /\ s.ws[w].readyState = "OPEN"
                        /\ \A v \in throwing \cap s.conn[id].clients :
                             s.ws[v].readyState = "OPEN" => w <= v}]

\* for (const w of conn.clients) if (w.readyState === OPEN) try { w.send(chunk) } catch {}
\* sent are the sockets send was called on; throwing are those whose send
\* throws, which the loop swallows.
fanOut(s, id, throwing) ==
  [s EXCEPT !.sent = {w \in s.conn[id].clients : s.ws[w].readyState = "OPEN"}]

\* stream 'data': touch and fan out to the OPEN clients.
ShellData(id, throwing) ==
  /\ chan[id] \in {"open", "closing"}
  /\ ssh[id] = "ready"
  /\ Commit(fanOut(touch(Cur, id, now), id, throwing))
  /\ reply' = 0
  /\ UNCHANGED <<pc, now, nextId, nextWs, resizing>>

onShellClose(s, id) ==
  LET s1 == [s EXCEPT !.conn[id].state = "closed"]
      s2 == closeClients(s1, id, 1011)
  IN  bumpAndNotify(s2, "state", id)

\* stream 'close': remote exit, shell.close(), or the transport went away.
ShellClose(id) ==
  /\ chan[id] \in {"open", "closing", "errored"}
  /\ Commit(onShellClose([Cur EXCEPT !.chan[id] = "closed"], id))
  /\ reply' = 0
  /\ UNCHANGED <<pc, now, nextId, nextWs, resizing>>

onShellError(s, id) ==
  LET s1 == [s EXCEPT !.conn[id].state = "error"]
      s2 == closeClients(s1, id, 1011)
  IN  bumpAndNotify(s2, "state", id)

\* stream 'error'
ShellError(id) ==
  /\ chan[id] \in {"open", "closing"}
  /\ Commit(onShellError([Cur EXCEPT !.chan[id] = "errored"], id))
  /\ reply' = 0
  /\ UNCHANGED <<pc, now, nextId, nextWs, resizing>>

\* ------------------------------------------------------------ admin facade
\* DELETE /connections/{id}
Delete(id) ==
  /\ IF id \in connections
       THEN Commit(terminateConnection(Cur, id, "deleted")) /\ reply' = 200
       ELSE Commit(Cur) /\ reply' = 404
  /\ UNCHANGED <<pc, now, nextId, nextWs, resizing>>

applyResize(s, id, cols, rows) ==
  bumpAndNotify([s EXCEPT !.conn[id].cols = cols, !.conn[id].rows = rows], "resize", id)

\* POST /connections/{id}/resize, up to await parseJsonBody: the lookup.
\* (One request per session is followed at a time.)
ResizeLookup(id) ==
  /\ id \notin resizing
  /\ Commit(Cur)
  /\ IF id \in connections /\ conn[id].shell
       THEN resizing' = resizing \cup {id} /\ reply' = 0
       ELSE resizing' = resizing /\ reply' = 404
  /\ UNCHANGED <<pc, now, nextId, nextWs>>

\* POST /connections/{id}/resize, after the body was read: 400 when cols or
\* rows is not a finite number, else applyResize on the session looked up.
ResizeApply(id, cols, rows, finite) ==
  /\ id \in resizing
  /\ IF finite
       THEN Commit(applyResize(Cur, id, cols, rows)) /\ reply' = 200
       ELSE Commit(Cur) /\ reply' = 400
  /\ resizing' = resizing \ {id}
  /\ UNCHANGED <<pc, now, nextId, nextWs>>

\* ------------------------------------------------------------ idle sweeper
activeClients(s, id) ==
  \E w \in s.conn[id].clients : s.ws[w].readyState = "OPEN"

\* mutant: the test ignores the peers of the session
sweepEligible_idleOnly(s, id, t) ==
  t - s.conn[id].lastActivityAt > s.conn[id].idleTimeoutMs

\* mutant: a session still Connecting is never eligible
sweepEligible_notConnecting(s, id, t) ==
  /\ s.conn[id].state # "connecting"
  /\ ~activeClients(s, id)
  /\ t - s.conn[id].lastActivityAt > s.conn[id].idleTimeoutMs

sweepEligible(s, id, t) ==
  /\ ~activeClients(s, id)
  /\ t - s.conn[id].lastActivityAt > s.conn[id].idleTimeoutMs

\* for (const conn of connections.values()), in insertion order
RECURSIVE sweepFrom(_, _, _)
sweepFrom(s, i, t) ==
  IF i > MaxSessions
    THEN s
    ELSE sweepFrom(IF i \in s.connections /\ sweepEligible(s, i, t)
                     THEN terminateConnection(s, i, "idle-timeout")
                     ELSE s,
                   i + 1, t)

\* one tick of setInterval(..., SWEEP_INTERVAL_MS)
Sweep ==
  /\ Commit(sweepFrom(Cur, 1, now))
  /\ reply' = 0
  /\ UNCHANGED <<pc, now, nextId, nextWs, resizing>>

\* the clock advances
Tick ==
  /\ now < MaxTime
  /\ now' = now + 1
  /\ Commit(Cur)
  /\ reply' = 0
  /\ UNCHANGED <<pc, nextId, nextWs, resizing>>

\* ------------------------------------------------------------- WebSockets
wsCleanup(s, w, t) ==
  LET id == s.ws[w].conn
      s1 == [s EXCEPT !.conn[id].clients = @ \ {w}]
      s2 == touch(s1, id, t)
  IN  bumpAndNotify(s2, "ws-detached", id)

\* mutant: attach without the readiness check
attachWebSocket_unchecked(s, w, id, readOnly, t) ==
  LET s0 == [s EXCEPT !.ws[w] = [NoWs EXCEPT !.conn = id, !.readyState = "OPEN",
                                             !.readOnly = readOnly]]
      s1 == [s0 EXCEPT !.conn[id].clients = @ \cup {w}]
      s2 == touch(s1, id, t)
      s3 == bumpAndNotify(s2, "ws-attached", id)
  IN  [s3 EXCEPT !.ws[w].listening = TRUE]

\* A socket refused at attach gets no listener and joins no set: nothing refers
\* to it afterwards, so only its refusal is recorded, for the step.
attachWebSocket(s, w, id, readOnly, t) ==
  LET s0 == [s EXCEPT !.ws[w] = [NoWs EXCEPT !.conn = id, !.readyState = "OPEN",
                                             !.readOnly = readOnly]]
  IN  IF s0.conn[id].state # "ready" \/ ~s0.conn[id].shell
        THEN [s EXCEPT !.refused = [conn |-> id, code |-> 1011]]
        ELSE LET s1 == [s0 EXCEPT !.conn[id].clients = @ \cup {w}]
                 s2 == touch(s1, id, t)
                 s3 == bumpAndNotify(s2, "ws-attached", id)
             IN  [s3 EXCEPT !.ws[w].listening = TRUE]

\* server.on("upgrade") for /ws/{id}: an unknown id destroys the socket,
\* a known one completes the handshake and attaches.
Upgrade(id, readOnly) ==
  /\ nextWs <= MaxPeers
  /\ IF id \in connections
       THEN LET s == attachWebSocket(Cur, nextWs, id, readOnly, now)
            IN  /\ Commit(s)
                /\ nextWs' = IF s.ws[nextWs].listening THEN nextWs + 1 ELSE nextWs
       ELSE /\ Commit(Cur)
            /\ nextWs' = nextWs
  /\ reply' = 0
  /\ UNCHANGED <<pc, now, nextId, resizing>>

\* conn.shell!.write(data)
shellWrite(s, id) == [s EXCEPT !.wrote = id]

\* mutant: the handler dispatches a read-only peer's frame like any other
onMessage_noReadOnly(s, w, frame, cols, rows, t) ==
  LET id == s.ws[w].conn
      s1 == touch(s, id, t)
  IN  CASE frame = "resize" -> applyResize(s1, id, cols, rows)
        [] frame = "resizeNaN" -> s1
        [] frame = "stdin" -> shellWrite(s1, id)
        [] frame = "ping" -> [s1 EXCEPT !.pong = w]
        [] frame = "detach" -> safeCloseWs(s1, w, 1000)
        [] OTHER -> shellWrite(s1, id)

\* mutant: read-only suppresses resize and stdin only
onMessage_readOnlyControl(s, w, frame, cols, rows, t) ==
  LET id == s.ws[w].conn
      s1 == touch(s, id, t)
  IN  CASE frame = "ping" -> [s1 EXCEPT !.pong = w]
        [] frame = "detach" -> safeCloseWs(s1, w, 1000)
        [] s.ws[w].readOnly -> s1
        [] frame = "resize" -> applyResize(s1, id, cols, rows)
        [] frame = "resizeNaN" -> s1
        [] OTHER -> shellWrite(s1, id)

\* ws.on("message"): touch, then nothing more for a read-only peer; else the
\* control frame is dispatched, and any other frame is written to the shell.
onMessage(s, w, frame, cols, rows, t) ==
  LET id == s.ws[w].conn
      s1 == touch(s, id, t)
  IN  IF s.ws[w].readOnly THEN s1
      ELSE CASE frame = "resize" -> applyResize(s1, id, cols, rows)
             [] frame = "resizeNaN" -> s1
             [] frame = "stdin" -> shellWrite(s1, id)
             [] frame = "ping" -> [s1 EXCEPT !.pong = w]
             [] frame = "detach" -> safeCloseWs(s1, w, 1000)
             [] OTHER -> shellWrite(s1, id)

\* a frame arrives on an attached socket that is not yet closed or broken
WsMessage(w, frame, cols, rows) ==
  /\ ws[w].listening
  /\ ws[w].readyState \in {"OPEN", "CLOSING"}
  /\ ~ws[w].errored
  /\ Commit(onMessage(Cur, w, frame, cols, rows, now))
  /\ reply' = 0
  /\ UNCHANGED <<pc, now, nextId, nextWs, resizing>>

\* ws 'close': the socket is gone and cleanup runs.
WsClose(w) ==
  /\ ws[w].listening
  /\ ws[w].readyState \in {"OPEN", "CLOSING"}
  /\ Commit(wsCleanup([Cur EXCEPT !.ws[w].readyState = "CLOSED"], w, now))
  /\ reply' = 0
  /\ UNCHANGED <<pc, now, nextId, nextWs, resizing>>

\* ws 'error': the library marks the socket CLOSING, emits error, and emits
\* close once the socket is destroyed.
WsError(w) ==
  /\ ws[w].listening
  /\ ws[w].readyState \in {"OPEN", "CLOSING"}
  /\ ~ws[w].errored
  /\ Commit(wsCleanup([Cur EXCEPT !.ws[w].readyState = "CLOSING", !.ws[w].errored = TRUE], w, now))
  /\ reply' = 0
  /\ UNCHANGED <<pc, now, nextId, nextWs, resizing>>

\* ------------------------------------------------------------------- Next
Next ==
  \/ \E idle \in IdleParams : Create(idle)
  \/ CreateRejected
  \/ \E id \in Ids : SshReady(id)
  \/ \E id \in Ids : SshError(id)
  \/ \E id \in Ids : SshClose(id)
  \/ \E id \in Ids : ShellOpen(id)
  \/ \E id \in Ids : ShellOpenFail(id)
  \/ \E id \in Ids, throwing \in SUBSET Peers : ShellData(id, throwing)
  \/ \E id \in Ids : ShellClose(id)
  \/ \E id \in Ids : ShellError(id)
  \/ \E id \in Ids : Delete(id)
  \/ \E id \in Ids : ResizeLookup(id)
  \/ \E id \in Ids, c \in ColsIn, r \in RowsIn, f \in BOOLEAN : ResizeApply(id, c, r, f)
  \/ Sweep
  \/ Tick
  \/ \E id \in Ids, ro \in BOOLEAN : Upgrade(id, ro)
  \/ \E w \in Peers, f \in Frames, c \in ColsIn, r \in RowsIn : WsMessage(w, f, c, r)
  \/ \E w \in Peers : WsClose(w)
  \/ \E w \in Peers : WsError(w)

Spec == Init /\ [][Next]_vars

\* setInterval re-arms the sweeper for as long as the server listens: a tick
\* that has something to do is not postponed for ever.
FairSpec == Spec /\ WF_vars(Sweep)

\* ================================================================= claims

\* C1: terminal states are irreversible: once a session's state is Closed or
\* Error, no step changes it.
C1_TerminalIrreversible ==
  [][\A id \in Ids : conn[id].state \in Terminal => conn'[id].state = conn[id].state]_vars

\* C2: no session present in the registry has state Closed or Error.
C2_NoTerminalInRegistry ==
  \A id \in connections : conn[id].state \notin Terminal

\* C3: over a session's whole life exactly one terminal notification is
\* published about it: never more than one, and one once it is Closed or Error.
C3_OneTerminalNotification ==
  \A id \in Ids :
    /\ termNotes[id] <= 1
    /\ conn[id].state \in Terminal => termNotes[id] = 1

NotesFor(pub, reason, id) ==
  Cardinality({k \in 1..Len(pub) : pub[k].reason = reason /\ pub[k].id = id})

\* C4: in every step and for every session, the ws-attached summaries published
\* are as many as the peers added to its peer set, and the ws-detached
\* summaries as many as the peers removed from it.
C4_OneNotePerPeerSetChange ==
  [][\A id \in Ids :
       /\ NotesFor(published', "ws-attached", id)
            = Cardinality(conn'[id].clients \ conn[id].clients)
       /\ NotesFor(published', "ws-detached", id)
            = Cardinality(conn[id].clients \ conn'[id].clients)]_vars

\* C5: every publication increments the global version by exactly one: the
\* summaries of a step carry the versions that follow the previous version,
\* in order, and the version ends at the last of them.
C5_VersionsStrictlyIncrease ==
  [][/\ connectionsVersion' = connectionsVersion + Len(published')
     /\ \A k \in 1..Len(published') :
          published'[k].version = connectionsVersion + k]_vars

\* C5 witness: a resize published as the third or a later summary.
C5_Witness ==
  /\ Len(published) = 1
  /\ published[1].reason = "resize"
  /\ published[1].version = connectionsVersion
  /\ connectionsVersion >= 3

\* C6: the registry never holds more than MAX_CONNECTIONS sessions, and a step
\* taken at capacity neither inserts a session nor publishes created.
C6_CapacityNeverExceeded ==
  [][/\ Cardinality(connections') <= MAX_CONNECTIONS
     /\ Cardinality(connections) >= MAX_CONNECTIONS =>
          /\ connections' \subseteq connections
          /\ \A k \in 1..Len(published') : published'[k].reason # "created"]_vars

\* C6 witness: a Create refused with 500 while the registry is full of a
\* session whose SSH connect is still pending.
C6_Witness ==
  /\ Cardinality(connections) = MAX_CONNECTIONS
  /\ reply = 500
  /\ published = <<>>
  /\ \E id \in connections : pc[id] = "await_ssh"

\* C7: a Create that failed (SSH error, ready timeout, shell-open error) leaves
\* its session in state Error, not Connecting in the registry.
C7_FailedCreateIsError ==
  \A id \in Ids : pc[id] = "rejected" => conn[id].state = "error"

\* C8: no session is Closed or Error while its shell channel is still open or
\* its SSH transport is neither ended nor closed.
C8_TerminalReleasesHandles ==
  \A id \in Ids :
    conn[id].state \in Terminal =>
      /\ chan[id] # "open"
      /\ ended[id] \/ ssh[id] = "closed"

\* C9: a peer joins a peer set only in a step that starts with the session
\* Ready; a socket is refused only on a session that is not Ready, with close
\* code 1011 and without changing any peer set; a session that is not Ready
\* has no peers; and shell chunks are sent only to peers of a Ready session.
C9_PeersOnlyWhenReady ==
  [][/\ \A id \in Ids :
          /\ conn'[id].clients \ conn[id].clients # {} => conn[id].state = "ready"
          /\ conn'[id].state # "ready" => conn'[id].clients = {}
     /\ \A w \in Peers :
          w \in sent' => conn'[ws'[w].conn].state = "ready"
     /\ refused' # NoRefusal =>
          /\ refused'.code = 1011
          /\ conn[refused'.conn].state # "ready"
          /\ \A id \in Ids : conn'[id].clients = conn[id].clients]_vars

\* C9 witness: a socket upgraded onto a registered Connecting session was
\* refused with 1011 and the peer set is empty.
C9_Witness ==
  /\ refused.code = 1011
  /\ refused.conn \in connections
  /\ conn[refused.conn].state = "connecting"
  /\ conn[refused.conn].clients = {}

\* C10: a Ready session has a shell handle and a Connecting session has none.
C10_ShellIffReady ==
  \A id \in Ids :
    /\ conn[id].state = "ready" => conn[id].shell
    /\ conn[id].state = "connecting" => ~conn[id].shell

\* C10 witness: a session made Ready by the shell-open callback.
C10_Witness ==
  \E id \in Ids :
    /\ conn[id].state = "ready"
    /\ conn[id].shell
    /\ pc[id] = "returned"
    /\ \E k \in 1..Len(published) : published[k].reason = "state" /\ published[k].id = id

\* C11: a session is published as idle-timeout only in a step that starts with
\* it registered, with no OPEN peer and with now - lastActivityAt greater than
\* its idleTimeoutMs; and a session that leaves the registry in a step that is
\* not a DELETE answered 200 is published as idle-timeout in that step.
C11_SweepOnlyIdle ==
  [][/\ \A k \in 1..Len(published') :
          published'[k].reason = "idle-timeout" =>
            LET id == published'[k].id
            IN  /\ id \in connections
                /\ id \notin connections'
                /\ ~activeClients(Cur, id)
                /\ now - conn[id].lastActivityAt > conn[id].idleTimeoutMs
     /\ \A id \in connections \ connections' :
          reply' # 200 => NotesFor(published', "idle-timeout", id) = 1]_vars

\* C11 witness: the sweeper has just reaped a session that had been attached
\* to, after its last peer stopped being OPEN.
C11_Witness ==
  \E id \in Ids :
    /\ NotesFor(published, "idle-timeout", id) = 1
    /\ id \notin connections
    /\ conn[id].state = "closed"
    /\ now - conn[id].lastActivityAt > conn[id].idleTimeoutMs
    /\ \E w \in Peers : ws[w].conn = id /\ ws[w].readyState # "OPEN"

\* the next tick would publish beyond the publications explored
SweepBeyondExplored == sweepFrom(Cur, 1, now).version > MaxVersion

\* no peer of the session is OPEN and lastActivityAt + idleTimeoutMs < now
IdleAtNow(id) ==
  /\ \A w \in conn[id].clients : ws[w].readyState # "OPEN"
  /\ conn[id].lastActivityAt + conn[id].idleTimeoutMs < now

\* C12: under a sweeper that keeps ticking, a registered session, in whatever
\* state, that has no OPEN peer and lastActivityAt + idleTimeoutMs < now is
\* eventually out of the registry, unless it stops being idle first.
C12_IdleEventuallyRemoved ==
  \A id \in Ids :
    (id \in connections /\ IdleAtNow(id))
      ~> \/ id \notin connections
         \/ ~IdleAtNow(id)
         \/ SweepBeyondExplored

\* C12 witness: the sweeper has just reaped a session whose create was still
\* waiting for the SSH transport.
C12_Witness ==
  \E id \in Ids :
    /\ NotesFor(published, "idle-timeout", id) = 1
    /\ id \notin connections
    /\ pc[id] = "await_ssh"
    /\ ~conn[id].shell

\* C13: termination by DELETE or by the sweeper takes effect at most once per
\* session: a DELETE of a registered id answers 200 and publishes its one
\* deleted summary; a DELETE of an id already terminated answers 404 and
\* publishes nothing; and the summaries with reason deleted or idle-timeout
\* that name one id never number more than one.
C13_TerminateAtMostOnce ==
  [][\A id \in Ids :
       /\ adminNotes'[id] <= 1
       /\ (id \in connections /\ Delete(id)) =>
            /\ reply' = 200
            /\ NotesFor(published', "deleted", id) = 1
            /\ adminNotes'[id] = 1
       /\ (adminNotes[id] >= 1 /\ Delete(id)) =>
            /\ reply' = 404
            /\ published' = <<>>
            /\ adminNotes'[id] = adminNotes[id]]_vars

\* C13 witness: a request on a session the sweeper had reaped earlier was
\* answered 404 without a publication.
C13_Witness ==
  \E id \in Ids :
    /\ adminNotes[id] = 1
    /\ id \notin connections
    /\ reply = 404
    /\ published = <<>>
    /\ now - conn[id].lastActivityAt > conn[id].idleTimeoutMs
    /\ connections = {}

\* C14: a frame of any shape from a read-only peer writes nothing to the shell,
\* leaves the session's cols and rows as they were and publishes no resize;
\* and a shell chunk is sent to every read-only peer of the session that is
\* OPEN when the chunk arrives.
C14_ReadOnlyNeverWrites ==
  [][/\ \A w \in Peers, f \in Frames, c \in ColsIn, r \in RowsIn :
          (ws[w].readOnly /\ WsMessage(w, f, c, r)) =>
            /\ wrote' = 0
            /\ conn'[ws[w].conn].cols = conn[ws[w].conn].cols
            /\ conn'[ws[w].conn].rows = conn[ws[w].conn].rows
            /\ NotesFor(published', "resize", ws[w].conn) = 0
     /\ \A id \in Ids, throwing \in SUBSET Peers :
          ShellData(id, throwing) =>
            \A w \in conn[id].clients :
              (ws[w].readOnly /\ ws[w].readyState = "OPEN") => w \in sent']_vars

\* C14 witness: a shell chunk has just been sent to a read-only peer of a
\* session that still has its initial size.
C14_Witness ==
  \E w \in sent :
    /\ ws[w].readOnly
    /\ ws[w].readyState = "OPEN"
    /\ conn[ws[w].conn].cols = DefaultCols
    /\ conn[ws[w].conn].rows = DefaultRows
    /\ conn[ws[w].conn].lastActivityAt = now
    /\ wrote = 0

\* C15: a ping frame from an OPEN read-only peer is answered with a pong to
\* that peer, and a detach frame from it closes that peer with code 1000.
C15_ReadOnlyPingDetach ==
  [][\A w \in Peers, c \in ColsIn, r \in RowsIn :
       (ws[w].readOnly /\ ws[w].readyState = "OPEN") =>
         /\ WsMessage(w, "ping", c, r) => pong' = w
         /\ WsMessage(w, "detach", c, r) =>
              /\ ws'[w].readyState = "CLOSING"
              /\ ws'[w].code = 1000]_vars

\* C15 as the handler has it: a ping or a detach frame from a read-only peer
\* is dropped like any other frame of that peer: no pong is sent, no socket
\* changes (the peer is not closed), nothing is published, and the session's
\* lastActivityAt is the current time.
C15_ReadOnlyDropsControl ==
  [][\A w \in Peers, c \in ColsIn, r \in RowsIn :
       (ws[w].readOnly /\ (WsMessage(w, "ping", c, r) \/ WsMessage(w, "detach", c, r))) =>
         /\ pong' = 0
         /\ ws' = ws
         /\ published' = <<>>
         /\ conn'[ws[w].conn].lastActivityAt = now]_vars

\* C15 witness: an OPEN read-only peer, attached alone, after a frame of its
\* own: the session was touched, nothing was sent, answered or published.
C15_Witness ==
  \E w \in Peers :
    /\ ws[w].readOnly
    /\ ws[w].listening
    /\ ws[w].readyState = "OPEN"
    /\ ws[w].code = 0
    /\ conn[ws[w].conn].clients = {w}
    /\ conn[ws[w].conn].lastActivityAt = now
    /\ now > 0
    /\ pong = 0
    /\ sent = {}
    /\ published = <<>>

\* C16: on a session that is Connecting, Closed or Error no step changes cols
\* or rows or publishes a resize summary, and an HTTP resize that looks such a
\* session up is answered 404.
C16_ResizeOnlyWhenReady ==
  [][\A id \in Ids :
       conn[id].state \in {"connecting", "closed", "error"} =>
         /\ conn'[id].cols = conn[id].cols
         /\ conn'[id].rows = conn[id].rows
         /\ NotesFor(published', "resize", id) = 0
         /\ ResizeLookup(id) => reply' = 404]_vars

\* C17: a step that delivers a shell chunk, receives a peer frame, attaches a
\* peer or publishes a resize of a session leaves that session's
\* lastActivityAt at the current time.
C17_ActivityRefreshed ==
  [][/\ \A id \in Ids :
          /\ (\E throwing \in SUBSET Peers : ShellData(id, throwing)) =>
               conn'[id].lastActivityAt = now
          /\ conn'[id].clients \ conn[id].clients # {} => conn'[id].lastActivityAt = now
          /\ NotesFor(published', "resize", id) > 0 => conn'[id].lastActivityAt = now
     /\ \A w \in Peers, f \in Frames, c \in ColsIn, r \in RowsIn :
          WsMessage(w, f, c, r) => conn'[ws[w].conn].lastActivityAt = now]_vars

\* C18: a shell chunk is sent, in the handler run of its arrival, to every
\* peer of the session that is OPEN at that moment, whichever sends throw and
\* whichever other peers are not OPEN; the run changes neither the session's
\* state nor its peer set nor any socket; so each chunk reaches either both or
\* neither of two peers that are OPEN members of the session.
C18_FanOutToEveryOpenPeer ==
  [][\A id \in Ids, throwing \in SUBSET Peers :
       ShellData(id, throwing) =>
         /\ sent' = {w \in conn[id].clients : ws[w].readyState = "OPEN"}
         /\ \A w1, w2 \in conn[id].clients :
              (ws[w1].readyState = "OPEN" /\ ws[w2].readyState = "OPEN") =>
                (w1 \in sent' <=> w2 \in sent')
         /\ conn'[id].state = conn[id].state
         /\ conn'[id].clients = conn[id].clients
         /\ connections' = connections
         /\ ws' = ws
         /\ published' = <<>>]_vars

\* C18 witness: a chunk was sent to an OPEN peer that was attached after a
\* peer of the same session that is no longer OPEN but not yet detached.
C18_Witness ==
  \E w1, w2 \in Peers :
    /\ w1 < w2
    /\ ws[w2].conn \in Ids
    /\ ws[w1].conn = ws[w2].conn
    /\ {w1, w2} \subseteq conn[ws[w2].conn].clients
    /\ ws[w1].readyState = "CLOSING"
    /\ w2 \in sent
    /\ w1 \notin sent
    /\ conn[ws[w2].conn].state = "ready"

\* C19: a session that was created and is no longer in the registry has no
\* open shell channel, is not Ready and has no peers.
C19_NoOrphanedLiveSession ==
  \A id \in Ids :
    (conn[id].state # "none" /\ id \notin connections) =>
      /\ chan[id] # "open"
      /\ conn[id].state # "ready"
      /\ conn[id].clients = {}

\* C20: a step that changes the set of registered ids, or the state of a
\* session registered before or after it, publishes a summary and raises the
\* version (so the registry's ids and states are the same wherever the
\* version is the same); and the last summary a step publishes carries the
\* new version and the tallies of the registry the step leaves: total is its
\* size, and ready, connecting, error and closed count its sessions by state.
C20_SummaryTriggersRefetch ==
  [][/\ (\/ connections' # connections
         \/ \E id \in connections \cup connections' : conn'[id].state # conn[id].state) =>
          /\ published' # <<>>
          /\ connectionsVersion' > connectionsVersion
     /\ connectionsVersion' = connectionsVersion =>
          /\ connections' = connections
          /\ \A id \in connections : conn'[id].state = conn[id].state
     /\ published' # <<>> =>
          LET n == published'[Len(published')]
          IN  /\ n.version = connectionsVersion'
              /\ n.counts.total = Cardinality(connections')
              /\ \A st \in {"ready", "connecting", "error", "closed"} :
                   n.counts[st] = Cardinality({i \in connections' : conn'[i].state = st})]_vars

\* C20 witness: the state summary of a shell error on a registered session
\* counts that session under error.
C20_Witness ==
  /\ Len(published) = 1
  /\ published[1].reason = "state"
  /\ published[1].id \in connections
  /\ conn[published[1].id].state = "error"
  /\ published[1].counts.error = 1
  /\ published[1].counts.total = Cardinality(connections)
  /\ published[1].version = connectionsVersion
====
